---------------------------- MODULE Spec2Model ----------------------------
(***************************************************************************)
(* A model of missingdata.base.blackholes and of the helpers it calls      *)
(* (process_labels, _set_default_filter_spec, freq_filter,                 *)
(* _validate_filter_spec, reorder_rows / reorder_cols, the two             *)
(* decorate_*_groups_with_total_freq, utils.set_labels,                    *)
(* utils.check_freq_thresh_labels).                                        *)
(*                                                                         *)
(* One call of blackholes is one behaviour: the initial state holds the    *)
(* arguments of the call, every action is one block of statements of the   *)
(* function body, in program order, and pc names the block that runs next. *)
(* A raised exception ends the call (pc = "error").                        *)
(*                                                                         *)
(* Conventions.  Python positions are 0-based, sequences here are 1-based: *)
(* position i of a sequence is Python position i - 1.  Row and column      *)
(* names of a DataFrame are the integers 0 .. n-1 (a RangeIndex, what      *)
(* pd.DataFrame(array) builds).  Floats are modelled by exact rationals;   *)
(* the model's counts are so small that float64 rounding changes no        *)
(* comparison made here.  The canvas (matplotlib) is opaque: its calls     *)
(* never fail and only the handles they return are recorded.               *)
(***************************************************************************)
EXTENDS Integers, Sequences, FiniteSets, TLC

(***************************************************************************)
(* Bounds of the model.                                                    *)
(***************************************************************************)
\* largest number of rows / columns of an enumerated table
MaxRows == 2
MaxCols == 2
\* largest number of cells of an enumerated table
MaxCells == 4
\* tables around the displayability thresholds have
\* MAX_*_DISPLAYABLE - 1 .. MAX_*_DISPLAYABLE + Slack rows / columns
Slack == 1

(***************************************************************************)
(* Python values.                                                          *)
(***************************************************************************)
None == [kind |-> "None"]
Tuple(items) == [kind |-> "tuple", items |-> items]
List(items) == [kind |-> "list", items |-> items]
\* a hashable scalar naming a column (an int, for a RangeIndex)
Name(k) == [kind |-> "name", name |-> k]
Callable(f) == [kind |-> "callable", fn |-> f]
\* any other object (e.g. a bare float given as a filter spec)
Other == [kind |-> "other"]

Ok(v) == [ok |-> TRUE, val |-> v]
Raise(e) == [ok |-> FALSE, err |-> e]

(***************************************************************************)
(* Exact rationals for the floats of the program.  NaN is 0/0 (numpy's     *)
(* result of 0/0); every comparison with NaN is False.                     *)
(***************************************************************************)
RECURSIVE Gcd(_, _)
Gcd(a, b) == IF b = 0 THEN a ELSE Gcd(b, a % b)

Abs(x) == IF x < 0 THEN -x ELSE x

Rat(n, d) == LET g == Gcd(Abs(n), d) IN [n |-> n \div g, d |-> d \div g]

NaN == [n |-> 0, d |-> 0]

IsNaN(a) == a.d = 0

\* numpy true division of two non-negative integers
Div(n, d) == IF d = 0 THEN NaN ELSE Rat(n, d)

RatLeq(a, b) == ~IsNaN(a) /\ ~IsNaN(b) /\ a.n * b.d <= b.n * a.d
RatLt(a, b) == ~IsNaN(a) /\ ~IsNaN(b) /\ a.n * b.d < b.n * a.d
RatAdd(a, b) ==
    IF IsNaN(a) \/ IsNaN(b) THEN NaN ELSE Rat(a.n * b.d + b.n * a.d, a.d * b.d)
RatMul(a, b) == IF IsNaN(a) \/ IsNaN(b) THEN NaN ELSE Rat(a.n * b.n, a.d * b.d)
\* a / b for a >= 0, b >= 0 (0/0 and NaN operands give NaN)
RatDiv(a, b) ==
    IF IsNaN(a) \/ IsNaN(b) \/ b.n = 0 THEN NaN ELSE Rat(a.n * b.d, a.d * b.n)

Zero == Rat(0, 1)
One == Rat(1, 1)
Half == Rat(1, 2)
\* np.finfo(np.float32).eps = 2^-23
EPS_DENOM == 8388608
Eps == Rat(1, EPS_DENOM)

RECURSIVE RatSum(_)
RatSum(s) == IF s = << >> THEN Zero ELSE RatAdd(Head(s), RatSum(Tail(s)))

RECURSIVE IntSum(_)
IntSum(s) == IF s = << >> THEN 0 ELSE Head(s) + IntSum(Tail(s))

(***************************************************************************)
(* numpy array helpers.                                                    *)
(***************************************************************************)
\* range(n) as a sequence: 0, 1, .., n-1
Range0(n) == [i \in 1..n |-> i - 1]

RECURSIVE SortedSeq(_)
SortedSeq(S) ==
    IF S = {} THEN << >>
    ELSE LET m == CHOOSE x \in S : \A y \in S : x <= y
         IN <<m>> \o SortedSeq(S \ {m})

\* np.flatnonzero(mask): the positions holding True, ascending
Flatnonzero(mask) == SortedSeq({i \in 1..Len(mask) : mask[i]})

\* arr[idx] for an integer index array (fancy indexing)
Take(arr, idx) == [k \in 1..Len(idx) |-> arr[idx[k]]]

\* arr[mask] for a boolean mask: numpy requires equal lengths, and raises
\* IndexError otherwise
BoolIndex(arr, mask) ==
    IF Len(arr) # Len(mask) THEN Raise("IndexError")
    ELSE Ok(Take(arr, Flatnonzero(mask)))

\* number of True entries of a boolean sequence
CountTrue(s) == Cardinality({i \in 1..Len(s) : s[i]})

\* cell_flag.sum(axis=1): per-row counts
SumAxis1(m) == [i \in 1..Len(m) |-> CountTrue(m[i])]

\* cell_flag.sum(axis=0): per-column counts, ncols the second dimension
SumAxis0(m, ncols) ==
    [j \in 1..ncols |-> Cardinality({i \in 1..Len(m) : m[i][j]})]

(***************************************************************************)
(* DataFrames.  A frame is its row names (index), its column names and the *)
(* set of <<row name, column name>> pairs whose cell is missing.           *)
(***************************************************************************)
Frame(r, c, m) == [index |-> Range0(r), columns |-> Range0(c), missing |-> m]

NumRows(data) == Len(data.index)
NumCols(data) == Len(data.columns)

\* data.isnull().values: the boolean matrix of missing cells
IsNull(data) ==
    [i \in 1..NumRows(data) |->
        [j \in 1..NumCols(data) |->
            <<data.index[i], data.columns[j]>> \in data.missing]]

\* str() of the cell in row name r, column name c: a missing cell prints as
\* nan, a present one as its value (the value stored there is modelled by a
\* token naming the cell)
CellStr(data, r, c) ==
    IF <<r, c>> \in data.missing THEN "nan"
    ELSE "v" \o ToString(r) \o "_" \o ToString(c)

\* data.iloc[rows, cols] for two boolean masks
Iloc(data, rows, cols) ==
    LET idx == Take(data.index, Flatnonzero(rows))
        col == Take(data.columns, Flatnonzero(cols))
        keptr == {idx[i] : i \in 1..Len(idx)}
        keptc == {col[j] : j \in 1..Len(col)}
    IN [index |-> idx, columns |-> col,
        missing |-> {p \in data.missing : p[1] \in keptr /\ p[2] \in keptc}]

\* every table of at most maxr rows, maxc columns and MaxCells cells
Tables(maxr, maxc) ==
    UNION {{Frame(rc[1], rc[2], m) :
               m \in SUBSET ((0..rc[1]-1) \X (0..rc[2]-1))} :
              rc \in {x \in (1..maxr) \X (1..maxc) : x[1] * x[2] <= MaxCells}}

(***************************************************************************)
(* missingdata.config (imported as cfg).                                   *)
(***************************************************************************)
MAX_ROWS_DISPLAYABLE == 60
MAX_COLS_DISPLAYABLE == 80

(***************************************************************************)
(* utils.check_freq_thresh_labels.                                         *)
(***************************************************************************)
\* no check of the threshold
CheckFreqThreshLabelsMutNoCheck(thresh) == Ok(thresh)

\* a frequency equal to the threshold kept too
LabelFilterMutGeq(thresh, freq) ==
    IF RatLt(Zero, thresh) THEN RatLeq(thresh, freq) ELSE TRUE

\* the function returned for an accepted threshold, applied to freq
LabelFilter(thresh, freq) ==
    IF RatLt(Zero, thresh) THEN RatLt(thresh, freq) ELSE TRUE

CheckFreqThreshLabels(thresh) ==
    IF ~(RatLeq(Zero, thresh) /\ RatLt(thresh, One)) THEN Raise("ValueError")
    ELSE Ok(thresh)

(***************************************************************************)
(* process_labels.                                                         *)
(***************************************************************************)
\* the labels a caller passes in a sequence of n: " L0 ", " L1 ", ..
\* (padded, so that strip_all has something to strip)
UserLabel(i) == " L" \o ToString(i) \o " "
UserLabels(n) == [i \in 1..n |-> UserLabel(i - 1)]

\* str.strip(): only the padded caller labels carry outer whitespace
Strip(s) ==
    LET hit == {i \in 0..(MaxRows + MaxCols + MAX_COLS_DISPLAYABLE + Slack + 2) :
                    s = UserLabel(i)}
    IN IF hit = {} THEN s ELSE "L" \o ToString(CHOOSE i \in hit : TRUE)

StripAll(arr) == [i \in 1..Len(arr) |-> Strip(arr[i])]

\* default_prefix as blackholes passes it: the str 'row' for the rows,
\* data_in.columns for the columns
RowPrefix == [kind |-> "str", s |-> "row"]
ColPrefix(data) == [kind |-> "index", items |-> data.columns]

\* `labels in data`: DataFrame.__contains__ hashes the key (a list is
\* unhashable: TypeError) and looks it up among the column names
ProcessLabels(data, labels, length, default_prefix) ==
    IF labels.kind # "None" THEN
        IF labels.kind = "list" THEN Raise("TypeError")
        ELSE IF labels.kind = "name"
                /\ \E j \in 1..NumCols(data) : data.columns[j] = labels.name
        THEN \* out_labels = data[labels]: the column, one value per row
             Ok(StripAll([i \in 1..NumRows(data) |->
                            CellStr(data, data.index[i], labels.name)]))
        ELSE IF labels.kind = "name" THEN Raise("TypeError") \* len() of an int
        ELSE IF Len(labels.items) = length THEN Ok(StripAll(labels.items))
        ELSE Raise("ValueError")
    ELSE
        IF default_prefix.kind = "str"
        THEN Ok(StripAll([i \in 1..length |->
                            default_prefix.s \o ToString(i - 1)]))
        ELSE IF Len(default_prefix.items) = length
        THEN Ok(StripAll([i \in 1..length |->
                            ToString(default_prefix.items[i])]))
        ELSE Raise("ValueError")

(***************************************************************************)
(* _set_default_filter_spec, _validate_filter_spec, freq_filter.           *)
(***************************************************************************)
\* (0, 1) also at the threshold itself
SetDefaultFilterSpecMutLeq(spec, size, max_size) ==
    IF spec.kind = "None"
    THEN IF size <= max_size THEN Tuple(<<Zero, One>>) ELSE Tuple(<<Eps, One>>)
    ELSE spec

SetDefaultFilterSpec(spec, size, max_size) ==
    IF spec.kind = "None"
    THEN IF size < max_size THEN Tuple(<<Zero, One>>) ELSE Tuple(<<Eps, One>>)
    ELSE spec

\* the callables a caller may pass: to_include is the docstring's example
\* (perc < 0.1 or perc > 0.9); not_bool returns its float argument
CallSpec(fn, perc) ==
    IF fn = "to_include"
    THEN [isbool |-> TRUE,
          truth |-> RatLt(perc, Rat(1, 10)) \/ RatLt(Rat(9, 10), perc)]
    ELSE [isbool |-> FALSE, truth |-> RatLt(Zero, perc)]

\* filter_func(perc) for the function _validate_filter_spec returned
ApplyFilter(filter_func, perc) ==
    IF filter_func.kind = "window"
    THEN RatLeq(filter_func.low, perc) /\ RatLeq(perc, filter_func.high)
    ELSE CallSpec(filter_func.fn, perc).truth

\* a bound of 0 rejected
ValidateFilterSpecMutStrict(spec) ==
    IF spec.kind \in {"tuple", "list"} THEN
        IF Len(spec.items) # 2 THEN Raise("ValueError")
        ELSE IF \E i \in 1..2 : RatLeq(spec.items[i], Zero)
                                   \/ RatLt(One, spec.items[i])
        THEN Raise("ValueError")
        ELSE Ok([kind |-> "window", low |-> spec.items[1],
                 high |-> spec.items[2]])
    ELSE IF spec.kind = "callable" THEN
        IF ~CallSpec(spec.fn, Half).isbool THEN Raise("ValueError")
        ELSE Ok([kind |-> "callable", fn |-> spec.fn])
    ELSE Raise("TypeError")

ValidateFilterSpec(spec) ==
    IF spec.kind \in {"tuple", "list"} THEN
        IF Len(spec.items) # 2 THEN Raise("ValueError")
        ELSE IF \E i \in 1..2 : RatLt(spec.items[i], Zero)
                                   \/ RatLt(One, spec.items[i])
        THEN Raise("ValueError")
        ELSE Ok([kind |-> "window", low |-> spec.items[1],
                 high |-> spec.items[2]])
    ELSE IF spec.kind = "callable" THEN
        IF ~CallSpec(spec.fn, Half).isbool THEN Raise("ValueError")
        ELSE Ok([kind |-> "callable", fn |-> spec.fn])
    ELSE Raise("TypeError")

\* row_freq / row_freq.size and col_freq / col_freq.size: what freq_filter
\* hands to the row and to the column predicate
RowPerc(data) ==
    LET row_freq == SumAxis1(IsNull(data))
    IN [i \in 1..Len(row_freq) |-> Div(row_freq[i], Len(row_freq))]

ColPerc(data) ==
    LET col_freq == SumAxis0(IsNull(data), NumCols(data))
    IN [j \in 1..Len(col_freq) |-> Div(col_freq[j], Len(col_freq))]

\* the column mask taken on the table the row filter left
FreqFilterMutSequential(data, row_spec, col_spec) ==
    LET row_filter == ValidateFilterSpec(row_spec)
        col_filter == ValidateFilterSpec(col_spec)
    IN IF ~row_filter.ok THEN Raise(row_filter.err)
       ELSE IF ~col_filter.ok THEN Raise(col_filter.err)
       ELSE LET row_perc == RowPerc(data)
                filtered_rows == [i \in 1..Len(row_perc) |->
                                    ApplyFilter(row_filter.val, row_perc[i])]
                col_perc == ColPerc(Iloc(data, filtered_rows,
                                         [j \in 1..NumCols(data) |-> TRUE]))
                filtered_cols == [j \in 1..Len(col_perc) |->
                                    ApplyFilter(col_filter.val, col_perc[j])]
            IN Ok([data |-> Iloc(data, filtered_rows, filtered_cols),
                   filtered_rows |-> filtered_rows,
                   filtered_cols |-> filtered_cols])

FreqFilter(data, row_spec, col_spec) ==
    LET row_filter == ValidateFilterSpec(row_spec)
        col_filter == ValidateFilterSpec(col_spec)
    IN IF ~row_filter.ok THEN Raise(row_filter.err)
       ELSE IF ~col_filter.ok THEN Raise(col_filter.err)
       ELSE LET row_perc == RowPerc(data)
                col_perc == ColPerc(data)
                filtered_rows == [i \in 1..Len(row_perc) |->
                                    ApplyFilter(row_filter.val, row_perc[i])]
                filtered_cols == [j \in 1..Len(col_perc) |->
                                    ApplyFilter(col_filter.val, col_perc[j])]
            IN Ok([data |-> Iloc(data, filtered_rows, filtered_cols),
                   filtered_rows |-> filtered_rows,
                   filtered_cols |-> filtered_cols])

(***************************************************************************)
(* Grouping: np.unique, np.argsort, reorder_rows, reorder_cols.            *)
(***************************************************************************)
\* the group labels of the model and their order (the order of the strings)
Groups == {"A", "B", "C"}
Ord(g) == CASE g = "A" -> 1 [] g = "B" -> 2 [] OTHER -> 3

\* np.unique(arr): the distinct values, ascending
RECURSIVE UniqueOf(_)
UniqueOf(S) ==
    IF S = {} THEN << >>
    ELSE LET m == CHOOSE x \in S : \A y \in S : Ord(x) <= Ord(y)
         IN <<m>> \o UniqueOf(S \ {m})

Unique(arr) == UniqueOf({arr[i] : i \in 1..Len(arr)})

\* the second result of np.unique(arr, return_inverse=True): for every
\* element its (0-based) position in Unique(arr)
UniqueInverse(arr) ==
    LET u == Unique(arr)
    IN [i \in 1..Len(arr) |-> (CHOOSE k \in 1..Len(u) : u[k] = arr[i]) - 1]

Perms(n) ==
    {p \in [1..n -> 1..n] : \A i, j \in 1..n : p[i] = p[j] => i = j}

\* np.argsort(arr) with the default kind='quicksort', which numpy documents
\* as not stable: any permutation that puts arr in non-decreasing order may
\* come back (which one depends on the length and on the numpy build)
ArgSorts(arr) ==
    {p \in Perms(Len(arr)) :
        \A i \in 1..(Len(arr) - 1) : Ord(arr[p[i]]) <= Ord(arr[p[i + 1]])}

ReorderRows(cell_flag, row_labels, row_group_index) ==
    [cell_flag |-> Take(cell_flag, row_group_index),
     labels |-> Take(row_labels, row_group_index)]

ReorderCols(cell_flag, col_labels, col_group_index) ==
    [cell_flag |-> [i \in 1..Len(cell_flag) |->
                       Take(cell_flag[i], col_group_index)],
     labels |-> Take(col_labels, col_group_index)]

\* the length checked against the number of kept items
GroupByMutCurrentLength(group_by, num_orig, keep) ==
    IF Len(group_by.items) # CountTrue(keep) THEN Raise("ValueError")
    ELSE IF Len(group_by.items) # Len(keep) THEN Raise("IndexError")
    ELSE LET by == Take(group_by.items, Flatnonzero(keep))
         IN Ok([group_by |-> by,
                group_set |-> Unique(by),
                group_index |-> UniqueInverse(by)])

\* the part of the grouping block of blackholes that does not depend on the
\* sort: the length check against the original axis length, the restriction
\* to the kept items, np.unique
GroupBy(group_by, num_orig, keep) ==
    IF Len(group_by.items) # num_orig THEN Raise("ValueError")
    ELSE LET by == Take(group_by.items, Flatnonzero(keep))
         IN Ok([group_by |-> by,
                group_set |-> Unique(by),
                group_index |-> UniqueInverse(by)])

(***************************************************************************)
(* decorate_row_groups_with_total_freq / decorate_col_groups_with_total_   *)
(* freq: the text annotations they draw, one per group name.               *)
(***************************************************************************)
Hundred == Rat(100, 1)

\* a group takes the items of its own and of every later group
DecorateMutLaterGroups(group_idx, freq, group_names) ==
    LET total_missingness == RatSum(freq)
        GrpIdx(gg) == Flatnonzero([i \in 1..Len(group_idx) |->
                                      group_idx[i] >= gg - 1])
        Text(gg) ==
            LET this_grp_idx == GrpIdx(gg)
                this_grp_freq == RatSum(Take(freq, this_grp_idx))
            IN [name |-> group_names[gg],
                \* int(np.mean(this_grp_idx)), as a Python position
                mean_idx |-> (IntSum(this_grp_idx) - Len(this_grp_idx))
                                 \div Len(this_grp_idx),
                perc |-> RatDiv(RatMul(Hundred, this_grp_freq),
                                total_missingness)]
    IN \* np.mean of an empty array is nan, and int(nan) raises ValueError
       IF \E gg \in 1..Len(group_names) : GrpIdx(gg) = << >>
       THEN Raise("ValueError")
       ELSE Ok([gg \in 1..Len(group_names) |-> Text(gg)])

\* group_idx holds 0-based group numbers; freq is freq.ravel()
Decorate(group_idx, freq, group_names) ==
    LET total_missingness == RatSum(freq)
        GrpIdx(gg) == Flatnonzero([i \in 1..Len(group_idx) |->
                                      group_idx[i] = gg - 1])
        Text(gg) ==
            LET this_grp_idx == GrpIdx(gg)
                this_grp_freq == RatSum(Take(freq, this_grp_idx))
            IN [name |-> group_names[gg],
                \* int(np.mean(this_grp_idx)), as a Python position
                mean_idx |-> (IntSum(this_grp_idx) - Len(this_grp_idx))
                                 \div Len(this_grp_idx),
                perc |-> RatDiv(RatMul(Hundred, this_grp_freq),
                                total_missingness)]
    IN \* np.mean of an empty array is nan, and int(nan) raises ValueError
       IF \E gg \in 1..Len(group_names) : GrpIdx(gg) = << >>
       THEN Raise("ValueError")
       ELSE Ok([gg \in 1..Len(group_names) |-> Text(gg)])

(***************************************************************************)
(* utils.set_labels: the ticks and labels it leaves on the axis.           *)
(***************************************************************************)
\* an empty selection shown as an axis without labels
SetLabelsMutEmptyOk(ticks, labels, metric, use_func, thresh) ==
    IF Len(ticks) # Len(labels) THEN Raise("ValueError")
    ELSE IF Len(labels) > 0 /\ use_func /\ Len(metric) = Len(labels)
    THEN LET keep == [i \in 1..Len(labels) |-> LabelFilter(thresh, metric[i])]
             sel == Flatnonzero(keep)
         IN Ok([ticks |-> Take(ticks, sel), labels |-> Take(labels, sel)])
    ELSE Ok([ticks |-> ticks, labels |-> labels])

\* func is label_filter of threshold thresh when use_func, None otherwise
SetLabels(ticks, labels, metric, use_func, thresh) ==
    IF Len(ticks) # Len(labels) THEN Raise("ValueError")
    ELSE IF Len(labels) > 0 /\ use_func /\ Len(metric) = Len(labels)
    THEN LET keep == [i \in 1..Len(labels) |-> LabelFilter(thresh, metric[i])]
             sel == Flatnonzero(keep)
         IN \* ticks, labels = list(zip(*t_n_l)) cannot unpack an empty list
            IF sel = << >> THEN Raise("ValueError")
            ELSE Ok([ticks |-> Take(ticks, sel), labels |-> Take(labels, sel)])
    ELSE Ok([ticks |-> ticks, labels |-> labels])

\* utils.remove_ticks_labels: set_labels(ax_h, axis, [], [])
RemoveTicksLabels == SetLabels(<< >>, << >>, << >>, FALSE, Zero)

(***************************************************************************)
(* blackholes, positioning: the extents (left, bottom, width, height), in    *)
(* figure fractions, of the panels handed to fig.add_axes.  A tuple's       *)
(* position k here is the code's position k - 1.                            *)
(***************************************************************************)
width == Rat(7, 10)
height == Rat(6, 10)
left_freq_over_col == Rat(1, 10)
frame_bottom == Rat(8, 100)
freq_cell_size == Rat(3, 100)
group_cell_size == Rat(15, 1000)
group_cell_height == Rat(2, 100)

\* a + b + c
RatAdd3(a, b, c) == RatAdd(RatAdd(a, b), c)
\* a - b for a >= b
RatSub(a, b) == Rat(a.n * b.d - b.n * a.d, a.d * b.d)

ext_FOC == <<left_freq_over_col, frame_bottom, freq_cell_size, height>>

ext_show_row_groups ==
    <<RatAdd3(ext_FOC[1], ext_FOC[3], Rat(5, 1000)), ext_FOC[2],
      group_cell_size, height>>

\* the frame keeps the place of the row-group strip also when it is shown
frame_leftMutNoShift(show_row_groups) ==
    RatAdd3(ext_FOC[1], ext_FOC[3], Rat(5, 1000))

frame_left(show_row_groups) ==
    IF show_row_groups
    THEN RatAdd3(ext_show_row_groups[1], group_cell_size, Rat(1, 100))
    ELSE RatAdd3(ext_FOC[1], ext_FOC[3], Rat(5, 1000))

ext_frame(show_row_groups) ==
    <<frame_left(show_row_groups), frame_bottom, width, height>>

ext_show_col_groups(show_row_groups) ==
    <<frame_left(show_row_groups),
      RatAdd(RatAdd3(frame_bottom, ext_frame(show_row_groups)[4],
                     group_cell_height), Rat(5, 1000)),
      width, group_cell_height>>

ext_FOR(show_row_groups, show_col_groups) ==
    IF show_col_groups
    THEN <<frame_left(show_row_groups),
           RatAdd3(ext_show_col_groups(show_row_groups)[2],
                   group_cell_height, Rat(1, 100)),
           width, freq_cell_size>>
    ELSE <<frame_left(show_row_groups),
           RatAdd(RatAdd3(frame_bottom, height, freq_cell_size),
                  Rat(2, 100)),
           width, freq_cell_size>>

\* the group-wise colorbars: right of the frame, and below it
ext_row_groups(show_row_groups) ==
    <<RatAdd3(ext_frame(show_row_groups)[1], ext_frame(show_row_groups)[3],
              Rat(1, 100)),
      frame_bottom, freq_cell_size, height>>

ext_col_groups(show_row_groups) ==
    <<frame_left(show_row_groups),
      RatSub(RatSub(frame_bottom, freq_cell_size), Rat(2, 100)),
      width, freq_cell_size>>

\* fig.add_axes(ext): the figure gets one more axes, at ext
AddAxes(axes, panel, ext) == axes \cup {[panel |-> panel, ext |-> ext]}

(***************************************************************************)
(* The state of one call of blackholes.                                    *)
(*   args    the arguments of the call, as the caller passed them          *)
(*   pc      the block of the function body that runs next                 *)
(*   error   the exception that ended the call, and the block that raised  *)
(*   loc     the local variables of blackholes, by their names             *)
(*   canvas  what was asked of matplotlib: the figure, the axes handles,   *)
(*           the axes added and their extents, the tick labels and the     *)
(*           group annotations                                             *)
(***************************************************************************)
VARIABLES args, pc, error, loc, canvas

vars == <<args, pc, error, loc, canvas>>

Unset == [kind |-> "unset"]
NoError == [type |-> "none", at |-> "none"]

\* the blocks of blackholes, in program order
Stages == <<"start", "labels", "defaults", "filter", "group_rows",
            "group_cols", "freq", "figure", "row_axis", "col_axis",
            "row_groups", "col_groups", "colorbars", "finish", "done">>

StageNo(p) == CHOOSE i \in 1..Len(Stages) : Stages[i] = p

\* block p has run to its end (without raising)
Passed(p) == pc # "error" /\ StageNo(pc) > StageNo(p)

\* block p has run: to its end, or to a raise
Ran(p) == Passed(p) \/ (pc = "error" /\ error.at = p)

LocInit ==
    [row_labels |-> Unset, col_labels |-> Unset,
     filter_spec_samples |-> Unset, filter_spec_variables |-> Unset,
     data |-> Unset, row_filter |-> Unset, col_filter |-> Unset,
     num_rows |-> Unset, num_cols |-> Unset, cell_flag |-> Unset,
     group_rows_by |-> Unset, row_group_set |-> Unset,
     row_group_index |-> Unset, row_sort_idx |-> Unset,
     group_rows_sorted |-> Unset, row_group_index_sorted |-> Unset,
     show_row_groups |-> Unset,
     group_cols_by |-> Unset, col_group_set |-> Unset,
     col_group_index |-> Unset, col_sort_idx |-> Unset,
     group_cols_sorted |-> Unset, col_group_index_sorted |-> Unset,
     show_col_groups |-> Unset,
     row_wise_freq |-> Unset, col_wise_freq |-> Unset]

CanvasInit ==
    [fig |-> FALSE, axes |-> {},
     ax_frame |-> "unset", ax_freq_over_col |-> "unset",
     ax_freq_over_row |-> "unset", ax_row_groups |-> "unset",
     ax_col_groups |-> "unset",
     yticklabels |-> Unset, xticklabels |-> Unset,
     row_group_text |-> Unset, col_group_text |-> Unset,
     saved |-> FALSE, returned |-> Unset]

\* the arguments of a call; LR, LC, GR, GC give the label and grouping
\* arguments to try for a table
CallsOf(T, FS, FV, LR(_), LC(_), GR(_), GC(_), TH, SA, CB, OP) ==
    UNION {
        [data_in : {d},
         filter_spec_samples : FS, filter_spec_variables : FV,
         label_rows_with : LR(d), label_cols_with : LC(d),
         group_rows_by : GR(d), group_cols_by : GC(d),
         freq_thresh_show_labels : TH, show_all_labels : SA,
         group_wise_colorbar : CB, out_path : OP] : d \in T}

InitCall(calls) ==
    /\ args \in calls
    /\ pc = "start"
    /\ error = NoError
    /\ loc = LocInit
    /\ canvas = CanvasInit

\* an exception leaves the function: nothing after the raise runs
Fail(type) ==
    /\ pc' = "error"
    /\ error' = [type |-> type, at |-> pc]

Goto(p) ==
    /\ pc' = p
    /\ error' = error

(***************************************************************************)
(* blackholes, block by block.                                             *)
(***************************************************************************)
\* lines 132-141: the DataFrame (an input pd.DataFrame cannot convert, a
\* 3-D array say, is the value Other: ValueError), its shape,
\* check_freq_thresh_labels
CheckInput ==
    /\ pc = "start"
    /\ IF args.data_in = Other THEN Fail("ValueError")
       ELSE IF ~CheckFreqThreshLabels(args.freq_thresh_show_labels).ok
       THEN Fail("ValueError") ELSE Goto("labels")
    /\ UNCHANGED <<args, loc, canvas>>

\* lines 143-147
Labels ==
    /\ pc = "labels"
    /\ LET data_in == args.data_in
           rl == ProcessLabels(data_in, args.label_rows_with,
                               NumRows(data_in), RowPrefix)
           cl == ProcessLabels(data_in, args.label_cols_with,
                               NumCols(data_in), ColPrefix(data_in))
       IN IF ~rl.ok THEN Fail(rl.err) /\ loc' = loc
          ELSE IF ~cl.ok
          THEN Fail(cl.err) /\ loc' = [loc EXCEPT !.row_labels = rl.val]
          ELSE /\ Goto("defaults")
               /\ loc' = [loc EXCEPT !.row_labels = rl.val,
                                     !.col_labels = cl.val]
    /\ UNCHANGED <<args, canvas>>

\* lines 149-156
Defaults ==
    /\ pc = "defaults"
    /\ Goto("filter")
    /\ loc' = [loc EXCEPT
            !.filter_spec_samples =
                SetDefaultFilterSpec(args.filter_spec_samples,
                                     NumRows(args.data_in),
                                     MAX_ROWS_DISPLAYABLE),
            !.filter_spec_variables =
                SetDefaultFilterSpec(args.filter_spec_variables,
                                     NumCols(args.data_in),
                                     MAX_COLS_DISPLAYABLE)]
    /\ UNCHANGED <<args, canvas>>

\* lines 158-168: freq_filter, then the labels are filtered alike
Filter ==
    /\ pc = "filter"
    /\ LET ff == FreqFilter(args.data_in, loc.filter_spec_samples,
                            loc.filter_spec_variables)
       IN IF ~ff.ok THEN Fail(ff.err) /\ loc' = loc
          ELSE LET got == [loc EXCEPT !.data = ff.val.data,
                                      !.row_filter = ff.val.filtered_rows,
                                      !.col_filter = ff.val.filtered_cols]
                   rl == BoolIndex(loc.row_labels, ff.val.filtered_rows)
                   cl == BoolIndex(loc.col_labels, ff.val.filtered_cols)
               IN IF ~rl.ok THEN Fail(rl.err) /\ loc' = got
                  ELSE IF ~cl.ok
                  THEN Fail(cl.err)
                       /\ loc' = [got EXCEPT !.row_labels = rl.val]
                  ELSE /\ Goto("group_rows")
                       /\ loc' = [got EXCEPT
                               !.row_labels = rl.val,
                               !.col_labels = cl.val,
                               !.num_rows = NumRows(ff.val.data),
                               !.num_cols = NumCols(ff.val.data),
                               !.cell_flag = IsNull(ff.val.data)]
    /\ UNCHANGED <<args, canvas>>

\* lines 172-188
GroupRows ==
    /\ pc = "group_rows"
    /\ IF args.group_rows_by.kind # "None" THEN
           LET g == GroupBy(args.group_rows_by, NumRows(args.data_in),
                            loc.row_filter)
           IN IF ~g.ok
              THEN Fail(g.err)
                   /\ loc' = [loc EXCEPT
                                !.group_rows_by = args.group_rows_by.items]
              ELSE \E row_sort_idx \in ArgSorts(g.val.group_by) :
                     LET re == ReorderRows(loc.cell_flag, loc.row_labels,
                                           row_sort_idx)
                     IN /\ Goto("group_cols")
                        /\ loc' = [loc EXCEPT
                             !.group_rows_by = g.val.group_by,
                             !.row_group_set = g.val.group_set,
                             !.row_group_index = g.val.group_index,
                             !.row_sort_idx = row_sort_idx,
                             !.cell_flag = re.cell_flag,
                             !.row_labels = re.labels,
                             !.group_rows_sorted =
                                 Take(g.val.group_by, row_sort_idx),
                             !.row_group_index_sorted =
                                 Take(g.val.group_index, row_sort_idx),
                             !.show_row_groups = TRUE]
       ELSE /\ Goto("group_cols")
            /\ loc' = [loc EXCEPT !.show_row_groups = FALSE]
    /\ UNCHANGED <<args, canvas>>

\* lines 190-206
GroupCols ==
    /\ pc = "group_cols"
    /\ IF args.group_cols_by.kind # "None" THEN
           LET g == GroupBy(args.group_cols_by, NumCols(args.data_in),
                            loc.col_filter)
           IN IF ~g.ok
              THEN Fail(g.err)
                   /\ loc' = [loc EXCEPT
                                !.group_cols_by = args.group_cols_by.items]
              ELSE \E col_sort_idx \in ArgSorts(g.val.group_by) :
                     LET re == ReorderCols(loc.cell_flag, loc.col_labels,
                                           col_sort_idx)
                     IN /\ Goto("freq")
                        /\ loc' = [loc EXCEPT
                             !.group_cols_by = g.val.group_by,
                             !.col_group_set = g.val.group_set,
                             !.col_group_index = g.val.group_index,
                             !.col_sort_idx = col_sort_idx,
                             !.cell_flag = re.cell_flag,
                             !.col_labels = re.labels,
                             !.group_cols_sorted =
                                 Take(g.val.group_by, col_sort_idx),
                             !.col_group_index_sorted =
                                 Take(g.val.group_index, col_sort_idx),
                             !.show_col_groups = TRUE]
       ELSE /\ Goto("freq")
            /\ loc' = [loc EXCEPT !.show_col_groups = FALSE]
    /\ UNCHANGED <<args, canvas>>

\* x / x.sum() for an array of counts
Normalize(counts) ==
    [i \in 1..Len(counts) |-> Div(counts[i], IntSum(counts))]

\* lines 209-222: the frame colours, the normalised frequencies
Freq ==
    /\ pc = "freq"
    /\ Goto("figure")
    /\ loc' = [loc EXCEPT
            !.row_wise_freq = Normalize(SumAxis1(loc.cell_flag)),
            !.col_wise_freq =
                Normalize(SumAxis0(loc.cell_flag, loc.num_cols))]
    /\ UNCHANGED <<args, canvas>>

\* lines 224-265: the figure, the extents of the panels, the main frame
Figure ==
    /\ pc = "figure"
    /\ Goto("row_axis")
    /\ canvas' = [canvas EXCEPT
            !.fig = TRUE, !.ax_frame = "ext_frame",
            !.axes = AddAxes(@, "ext_frame", ext_frame(loc.show_row_groups))]
    /\ UNCHANGED <<args, loc>>

\* the tick labels blackholes asks for on one frequency strip
\* (lines 270-278 for the rows, 288-297 for the columns)
TickLabels(num, labels, freq, max_displayable) ==
    IF RatLt(Zero, args.freq_thresh_show_labels)
    THEN SetLabels(Range0(num), labels, freq, TRUE,
                   args.freq_thresh_show_labels)
    ELSE IF args.show_all_labels \/ num <= max_displayable
    THEN SetLabels(Range0(num), labels, << >>, FALSE, Zero)
    ELSE RemoveTicksLabels

\* lines 267-281: the strip of row frequencies (left of the frame)
RowAxis ==
    /\ pc = "row_axis"
    /\ LET t == TickLabels(loc.num_rows, loc.row_labels, loc.row_wise_freq,
                           MAX_ROWS_DISPLAYABLE)
           ax == [canvas EXCEPT !.ax_freq_over_col = "ext_FOC",
                                !.axes = AddAxes(@, "ext_FOC", ext_FOC)]
       IN IF ~t.ok THEN Fail(t.err) /\ canvas' = ax
          ELSE Goto("col_axis")
               /\ canvas' = [ax EXCEPT !.yticklabels = t.val]
    /\ UNCHANGED <<args, loc>>

\* lines 283-298: the strip of column frequencies (above the frame)
ColAxis ==
    /\ pc = "col_axis"
    /\ LET t == TickLabels(loc.num_cols, loc.col_labels, loc.col_wise_freq,
                           MAX_COLS_DISPLAYABLE)
           ax == [canvas EXCEPT
                    !.ax_freq_over_row = "ext_FOR",
                    !.axes = AddAxes(@, "ext_FOR",
                                     ext_FOR(loc.show_row_groups,
                                             loc.show_col_groups))]
       IN IF ~t.ok THEN Fail(t.err) /\ canvas' = ax
          ELSE Goto("row_groups")
               /\ canvas' = [ax EXCEPT !.xticklabels = t.val]
    /\ UNCHANGED <<args, loc>>

\* lines 300-306
RowGroupsAxis ==
    /\ pc = "row_groups"
    /\ IF loc.show_row_groups THEN
           LET d == Decorate(loc.row_group_index_sorted, loc.row_wise_freq,
                             loc.row_group_set)
               ax == [canvas EXCEPT
                        !.ax_row_groups = "ext_show_row_groups",
                        !.axes = AddAxes(@, "ext_show_row_groups",
                                         ext_show_row_groups)]
           IN IF ~d.ok THEN Fail(d.err) /\ canvas' = ax
              ELSE Goto("col_groups")
                   /\ canvas' = [ax EXCEPT !.row_group_text = d.val]
       ELSE Goto("col_groups")
            /\ canvas' = [canvas EXCEPT !.ax_row_groups = "None"]
    /\ UNCHANGED <<args, loc>>

\* lines 308-314
ColGroupsAxis ==
    /\ pc = "col_groups"
    /\ IF loc.show_col_groups THEN
           LET d == Decorate(loc.col_group_index_sorted, loc.col_wise_freq,
                             loc.col_group_set)
               ax == [canvas EXCEPT
                        !.ax_col_groups = "ext_show_col_groups",
                        !.axes = AddAxes(@, "ext_show_col_groups",
                                    ext_show_col_groups(loc.show_row_groups))]
           IN IF ~d.ok THEN Fail(d.err) /\ canvas' = ax
              ELSE Goto("colorbars")
                   /\ canvas' = [ax EXCEPT !.col_group_text = d.val]
       ELSE Goto("colorbars")
            /\ canvas' = [canvas EXCEPT !.ax_col_groups = "None"]
    /\ UNCHANGED <<args, loc>>

\* the group handles kept only when the group-wise colorbars are drawn
ColorbarsMutHandleOnlyWithColorbar ==
    /\ pc = "colorbars"
    /\ Goto("finish")
    /\ canvas' = [canvas EXCEPT
            !.axes =
                (IF loc.show_row_groups /\ args.group_wise_colorbar
                 THEN AddAxes(@, "ext_row_groups",
                              ext_row_groups(loc.show_row_groups))
                 ELSE @)
                \cup
                (IF loc.show_col_groups /\ args.group_wise_colorbar
                 THEN AddAxes({}, "ext_col_groups",
                              ext_col_groups(loc.show_row_groups))
                 ELSE {}),
            !.ax_row_groups =
                IF loc.show_row_groups /\ args.group_wise_colorbar
                THEN "ext_row_groups" ELSE "None",
            !.ax_col_groups =
                IF loc.show_col_groups /\ args.group_wise_colorbar
                THEN "ext_col_groups" ELSE "None"]
    /\ UNCHANGED <<args, loc>>

\* lines 317-351: the group-wise colorbars take over the group handles
Colorbars ==
    /\ pc = "colorbars"
    /\ Goto("finish")
    /\ canvas' = [canvas EXCEPT
            !.axes =
                (IF loc.show_row_groups /\ args.group_wise_colorbar
                 THEN AddAxes(@, "ext_row_groups",
                              ext_row_groups(loc.show_row_groups))
                 ELSE @)
                \cup
                (IF loc.show_col_groups /\ args.group_wise_colorbar
                 THEN AddAxes({}, "ext_col_groups",
                              ext_col_groups(loc.show_row_groups))
                 ELSE {}),
            !.ax_row_groups =
                IF loc.show_row_groups /\ args.group_wise_colorbar
                THEN "ext_row_groups" ELSE @,
            !.ax_col_groups =
                IF loc.show_col_groups /\ args.group_wise_colorbar
                THEN "ext_col_groups" ELSE @]
    /\ UNCHANGED <<args, loc>>

\* lines 353-363: show, save, return the six handles
Finish ==
    /\ pc = "finish"
    /\ Goto("done")
    /\ canvas' = [canvas EXCEPT
            !.saved = (args.out_path.kind # "None"),
            !.returned = <<"fig", canvas.ax_frame, canvas.ax_freq_over_row,
                           canvas.ax_freq_over_col, canvas.ax_row_groups,
                           canvas.ax_col_groups>>]
    /\ UNCHANGED <<args, loc>>

Next ==
    \/ CheckInput
    \/ Labels
    \/ Defaults
    \/ Filter
    \/ GroupRows
    \/ GroupCols
    \/ Freq
    \/ Figure
    \/ RowAxis
    \/ ColAxis
    \/ RowGroupsAxis
    \/ ColGroupsAxis
    \/ Colorbars
    \/ Finish

(***************************************************************************)
(* The calls that are checked.  Every specification runs the same          *)
(* blackholes (Next); they differ in the arguments they enumerate.         *)
(***************************************************************************)
SmallTables == Tables(MaxRows, MaxCols)

\* tables whose sides straddle the displayability thresholds; only cells
\* (0,0) and (1,1) may be missing
BigTables ==
    {Frame(r, c, m) :
        r \in (MAX_ROWS_DISPLAYABLE - 1)..(MAX_ROWS_DISPLAYABLE + Slack),
        c \in (MAX_COLS_DISPLAYABLE - 1)..(MAX_COLS_DISPLAYABLE + Slack),
        m \in SUBSET {<<0, 0>>, <<1, 1>>}}

WindowVals == {Rat(-1, 2), Zero, Half, One, Rat(3, 2)}

FilterSpecsFull ==
    {None, Other, Callable("to_include"), Callable("not_bool"),
     Tuple(<<Eps, One>>), Tuple(<<Rat(3, 2), Rat(2, 1)>>),
     Tuple(<<Half>>), Tuple(<<Zero, Half, One>>),
     List(<<Zero, One>>), List(<<Zero>>)}
    \cup {Tuple(<<a, b>>) : a, b \in WindowVals}

FilterSpecsFew == {None, Tuple(<<Zero, One>>), Tuple(<<Eps, One>>)}

NoArg(d) == {None}

RowLabelSpecs(d) ==
    {None, Name(0), Name(NumCols(d)),
     Tuple(UserLabels(NumRows(d))), Tuple(UserLabels(NumRows(d) + 1)),
     List(UserLabels(NumRows(d)))}

ColLabelSpecs(d) ==
    {None, Name(0), Name(NumCols(d)),
     Tuple(UserLabels(NumCols(d))), Tuple(UserLabels(NumCols(d) + 1)),
     List(UserLabels(NumCols(d)))}

\* every membership sequence of length n, and one a member too long, one a
\* member too short
GroupSeqs(n) ==
    {None} \cup {List(g) : g \in [1..n -> Groups]}
    \cup {List([i \in 1..(n + 1) |-> "A"]), List([i \in 1..(n - 1) |-> "B"])}

GroupSeqsFew(n) ==
    {None, List([i \in 1..n |-> IF i % 2 = 1 THEN "B" ELSE "A"])}

RowGroupSeqs(d) == GroupSeqs(NumRows(d))
ColGroupSeqs(d) == GroupSeqs(NumCols(d))
RowGroupSeqsFew(d) == GroupSeqsFew(NumRows(d))
ColGroupSeqsFew(d) == GroupSeqsFew(NumCols(d))

Path == [kind |-> "path"]

\* the filter: every filter spec on one axis against a few on the other
FilterCalls ==
    CallsOf(SmallTables, FilterSpecsFull, FilterSpecsFew,
            NoArg, NoArg, NoArg, NoArg, {Zero}, {FALSE}, {FALSE}, {None})
    \cup CallsOf(SmallTables, FilterSpecsFew, FilterSpecsFull,
            NoArg, NoArg, NoArg, NoArg, {Zero}, {FALSE}, {FALSE}, {None})

\* the default filter specs, on tables around the thresholds
DefaultCalls ==
    CallsOf(BigTables \cup Tables(1, 1),
            {None, Tuple(<<Zero, One>>), Tuple(<<Half, One>>)},
            {None, Tuple(<<Zero, One>>), Tuple(<<Half, One>>)},
            NoArg, NoArg, NoArg, NoArg, {Zero}, {FALSE}, {FALSE}, {None})

\* the labels
LabelCalls ==
    CallsOf(SmallTables, {None, Tuple(<<Eps, One>>)}, {None},
            RowLabelSpecs, ColLabelSpecs, NoArg, NoArg,
            {Zero}, {FALSE}, {FALSE}, {None})

\* the grouping: every membership sequence on one axis, with and without
\* rows / columns dropped by the filter, and a few on both axes
GroupCalls ==
    CallsOf(SmallTables, {None, Tuple(<<Eps, One>>)}, {None},
            NoArg, NoArg, RowGroupSeqs, NoArg,
            {Zero}, {FALSE}, {FALSE}, {None})
    \cup CallsOf(SmallTables, {None}, {None, Tuple(<<Eps, One>>)},
            NoArg, NoArg, NoArg, ColGroupSeqs,
            {Zero}, {FALSE}, {FALSE}, {None})
    \cup CallsOf(SmallTables, {None}, {None},
            NoArg, NoArg, RowGroupSeqsFew, ColGroupSeqsFew,
            {Zero}, {FALSE, TRUE}, {FALSE, TRUE}, {None})

\* calls that vary every argument a little
AnyCalls ==
    CallsOf(SmallTables, {None, Tuple(<<Eps, One>>)}, {None},
            NoArg, NoArg, RowGroupSeqsFew, ColGroupSeqsFew,
            {Zero, Rat(1, 4), One}, {FALSE, TRUE}, {FALSE, TRUE},
            {None, Path})

Init == InitCall(AnyCalls)
Spec == Init /\ [][Next]_vars

InitFilter == InitCall(FilterCalls)
SpecFilter == InitFilter /\ [][Next]_vars

InitDefault == InitCall(DefaultCalls)
SpecDefault == InitDefault /\ [][Next]_vars

InitLabels == InitCall(LabelCalls)
SpecLabels == InitLabels /\ [][Next]_vars

InitGroup == InitCall(GroupCalls)
SpecGroup == InitGroup /\ [][Next]_vars

\* the tick labels: small tables under every threshold, and tables around
\* the displayability thresholds with nothing filtered out
TickCalls ==
    CallsOf(SmallTables, {None}, {None}, NoArg, NoArg, NoArg, NoArg,
            {Zero, Rat(1, 4), Rat(1, 3), Half}, {FALSE, TRUE}, {FALSE},
            {None})
    \cup CallsOf({d \in BigTables : d.missing = {<<0, 0>>, <<1, 1>>}},
            {Tuple(<<Zero, One>>)}, {Tuple(<<Zero, One>>)},
            NoArg, NoArg, NoArg, NoArg,
            {Zero, Rat(1, 4)}, {FALSE, TRUE}, {FALSE}, {None})

\* calls that fail each of the validations, and calls that pass them all;
\* every call asks for the figure to be saved
ValidateCalls ==
    CallsOf({Other}, {None}, {None}, NoArg, NoArg, NoArg, NoArg,
            {Zero}, {FALSE}, {FALSE}, {Path})
    \cup CallsOf(SmallTables, {None}, {None}, NoArg, NoArg, NoArg, NoArg,
            {Rat(-1, 2), Zero, Rat(1, 4), One, Rat(3, 2)}, {FALSE}, {FALSE},
            {Path})
    \cup CallsOf(SmallTables,
            {None, Other, Callable("not_bool"), Callable("to_include"),
             Tuple(<<Half>>), Tuple(<<Rat(3, 2), Rat(2, 1)>>)},
            {None, Other, Callable("not_bool"),
             Tuple(<<Zero, Half, One>>), Tuple(<<Rat(-1, 2), One>>)},
            NoArg, NoArg, NoArg, NoArg, {Zero}, {FALSE}, {FALSE}, {Path})
    \cup CallsOf(SmallTables, {None}, {None},
            RowLabelSpecs, ColLabelSpecs, NoArg, NoArg,
            {Zero}, {FALSE}, {FALSE}, {Path})
    \cup CallsOf(SmallTables, {None, Tuple(<<Eps, One>>)}, {None},
            NoArg, NoArg, RowGroupSeqs, ColGroupSeqsFew,
            {Zero}, {FALSE}, {FALSE}, {Path})
    \cup CallsOf(SmallTables, {None}, {None, Tuple(<<Eps, One>>)},
            NoArg, NoArg, RowGroupSeqsFew, ColGroupSeqs,
            {Zero}, {FALSE}, {FALSE}, {Path})

InitValidate == InitCall(ValidateCalls)
SpecValidate == InitValidate /\ [][Next]_vars

InitTicks == InitCall(TickCalls)
SpecTicks == InitTicks /\ [][Next]_vars

(***************************************************************************)
(* The claims.  What a claim counts is counted here from the table itself, *)
(* not with the operators that model the code.                             *)
(***************************************************************************)
\* the table the caller passed
Orig == args.data_in

\* the number of missing cells in the row / column at position i of data
MissingInRow(data, i) ==
    Cardinality({p \in data.missing : p[1] = data.index[i]})
MissingInCol(data, j) ==
    Cardinality({p \in data.missing : p[2] = data.columns[j]})

\* a / b as a ratio in lowest terms (b > 0), and its order
Ratio(a, b) == Rat(a, b)
InUnit(q) == q.d > 0 /\ 0 <= q.n /\ q.n <= q.d

\* the rows / columns of data picked by a keep mask
SelectRows(data, keep) ==
    LET kept == {data.index[i] : i \in {k \in 1..NumRows(data) : keep[k]}}
    IN [index |-> SelectSeq(data.index, LAMBDA r : r \in kept),
        columns |-> data.columns,
        missing |-> {p \in data.missing : p[1] \in kept}]
SelectCols(data, keep) ==
    LET kept == {data.columns[j] : j \in {k \in 1..NumCols(data) : keep[k]}}
    IN [index |-> data.index,
        columns |-> SelectSeq(data.columns, LAMBDA c : c \in kept),
        missing |-> {p \in data.missing : p[2] \in kept}]

\* freq_filter raised on its arguments
FilterRejected ==
    pc = "error" /\ error.at = "filter"
    /\ error.type \in {"ValueError", "TypeError"}

\* C1: in freq_filter the ratio handed to the row predicate for row r is
\* (missing cells of row r) / (number of columns), the ratio handed to the
\* column predicate for column c is (missing cells of column c) / (number
\* of rows), and every ratio lies in [0,1].
C1_RatioIsMissingOverAxisLength ==
    Passed("filter") =>
        /\ \A i \in 1..NumRows(Orig) :
              /\ RowPerc(Orig)[i] = Ratio(MissingInRow(Orig, i), NumCols(Orig))
              /\ InUnit(RowPerc(Orig)[i])
        /\ \A j \in 1..NumCols(Orig) :
              /\ ColPerc(Orig)[j] = Ratio(MissingInCol(Orig, j), NumRows(Orig))
              /\ InUnit(ColPerc(Orig)[j])

\* C2: freq_filter with row spec (0,1) and column spec (0,1) keeps every
\* row and every column, and returns the table unchanged.
C2_TautologicalSpecKeepsAll ==
    (/\ Passed("filter")
     /\ loc.filter_spec_samples = Tuple(<<Zero, One>>)
     /\ loc.filter_spec_variables = Tuple(<<Zero, One>>)) =>
        /\ \A i \in 1..NumRows(Orig) : loc.row_filter[i]
        /\ \A j \in 1..NumCols(Orig) : loc.col_filter[j]
        /\ loc.data = Orig

\* C3: with spec (epsilon, 1.0) on an axis, freq_filter keeps an item of
\* that axis if and only if it has at least one missing cell.
C3_EpsSpecKeepsExactlyIncomplete ==
    Passed("filter") =>
        /\ loc.filter_spec_samples = Tuple(<<Eps, One>>) =>
              \A i \in 1..NumRows(Orig) :
                  loc.row_filter[i] <=> MissingInRow(Orig, i) >= 1
        /\ loc.filter_spec_variables = Tuple(<<Eps, One>>) =>
              \A j \in 1..NumCols(Orig) :
                  loc.col_filter[j] <=> MissingInCol(Orig, j) >= 1

IsWindow(spec) == spec.kind \in {"tuple", "list"}
GoodWindow(spec) ==
    /\ Len(spec.items) = 2
    /\ \A k \in 1..2 : InUnit(spec.items[k])
\* low <= ratio <= high, endpoints included
InWindow(spec, q) ==
    /\ spec.items[1].n * q.d <= q.n * spec.items[1].d
    /\ q.n * spec.items[2].d <= spec.items[2].n * q.d

C6_FilterIsIntersection ==
    Passed("filter") =>
        LET rp == ValidateFilterSpec(loc.filter_spec_samples).val
            cp == ValidateFilterSpec(loc.filter_spec_variables).val
            rows == [i \in 1..NumRows(Orig) |->
                        ApplyFilter(rp, RowPerc(Orig)[i])]
            cols == [j \in 1..NumCols(Orig) |->
                        ApplyFilter(cp, ColPerc(Orig)[j])]
        IN /\ loc.row_filter = rows
           /\ loc.col_filter = cols
           /\ loc.data = SelectCols(SelectRows(Orig, rows), cols)
           /\ loc.data = SelectRows(SelectCols(Orig, cols), rows)

\* a row and a column were dropped and a sub-table is left
C6_Witness ==
    /\ Passed("filter")
    /\ \E i \in 1..NumRows(Orig) : ~loc.row_filter[i]
    /\ \E j \in 1..NumCols(Orig) : ~loc.col_filter[j]
    /\ NumRows(loc.data) >= 1 /\ NumCols(loc.data) >= 1
    /\ loc.data.missing # {}

\* C7: whenever process_labels returns, it returns exactly axis_length
\* labels, for the rows (axis_length = number of rows) and for the columns
\* (axis_length = number of columns), whichever branch fired.
C7_LabelLengthIsAxisLength ==
    pc = "defaults" =>
        /\ Len(loc.row_labels) = NumRows(Orig)
        /\ Len(loc.col_labels) = NumCols(Orig)

\* the positions of seq picked by a keep mask, in order
RECURSIVE Masked(_, _)
Masked(seq, keep) ==
    IF seq = << >> THEN << >>
    ELSE (IF Head(keep) THEN <<Head(seq)>> ELSE << >>)
             \o Masked(Tail(seq), Tail(keep))

\* idx sorts by in ascending group order and keeps the original order
\* within a group
StableSortOf(idx, by) ==
    /\ Len(idx) = Len(by)
    /\ {idx[k] : k \in 1..Len(idx)} = 1..Len(by)
    /\ \A i, j \in 1..Len(idx) :
          i < j => \/ Ord(by[idx[i]]) < Ord(by[idx[j]])
                   \/ by[idx[i]] = by[idx[j]] /\ idx[i] < idx[j]

\* C8: with group_rows_by (group_cols_by) given, the rows (columns) of the
\* mask and their labels are reordered by the stable sort on ascending
\* group: non-decreasing group order, original order kept within a group.
C8_GroupReorderIsStable ==
    /\ (Passed("group_rows") /\ loc.show_row_groups) =>
          StableSortOf(loc.row_sort_idx, loc.group_rows_by)
    /\ (Passed("group_cols") /\ loc.show_col_groups) =>
          StableSortOf(loc.col_sort_idx, loc.group_cols_by)

\* the members (positions) of group number gg of a sorted group index
Members(group_index_sorted, gg) ==
    {i \in 1..Len(group_index_sorted) : group_index_sorted[i] = gg - 1}

PercentagesSumTo100(text, group_index_sorted, group_set) ==
    /\ Len(text) = Len(group_set)
    /\ \A gg \in 1..Len(group_set) : Members(group_index_sorted, gg) # {}
    /\ \A i \in 1..Len(group_index_sorted) :
          \E gg \in 1..Len(group_set) : i \in Members(group_index_sorted, gg)
    /\ RatSum([gg \in 1..Len(text) |-> text[gg].perc]) = Rat(100, 1)

\* C9: for a filtered table with at least one missing cell, the per-group
\* percentages of decorate_row_groups_with_total_freq and of
\* decorate_col_groups_with_total_freq sum to 100, every group having a
\* member and the groups covering the axis.
C9_GroupPercentagesSumTo100 ==
    /\ (Passed("row_groups") /\ loc.show_row_groups
           /\ loc.data.missing # {}) =>
          PercentagesSumTo100(canvas.row_group_text,
                              loc.row_group_index_sorted, loc.row_group_set)
    /\ (Passed("col_groups") /\ loc.show_col_groups
           /\ loc.data.missing # {}) =>
          PercentagesSumTo100(canvas.col_group_text,
                              loc.col_group_index_sorted, loc.col_group_set)

\* two row groups, each with a share of the missing cells that is neither
\* 0 nor 100 percent
C9_Witness ==
    /\ Passed("row_groups") /\ loc.show_row_groups
    /\ Len(canvas.row_group_text) = 2
    /\ \A gg \in 1..2 :
          /\ RatLt(Zero, canvas.row_group_text[gg].perc)
          /\ RatLt(canvas.row_group_text[gg].perc, Rat(100, 1))

\* C10: a grouping sequence is checked against the original axis length
\* (ValueError when it differs), and an accepted one is cut down with the
\* keep mask of the filter, one entry per surviving row / column.
C10_GroupLengthAgainstOriginal ==
    /\ (Ran("group_rows") /\ args.group_rows_by.kind # "None") =>
          IF Len(args.group_rows_by.items) # NumRows(Orig)
          THEN pc = "error" /\ error = [type |-> "ValueError",
                                        at |-> "group_rows"]
          ELSE /\ Passed("group_rows")
               /\ loc.group_rows_by =
                      Masked(args.group_rows_by.items, loc.row_filter)
               /\ Len(loc.group_rows_by) = NumRows(loc.data)
    /\ (Ran("group_cols") /\ args.group_cols_by.kind # "None") =>
          IF Len(args.group_cols_by.items) # NumCols(Orig)
          THEN pc = "error" /\ error = [type |-> "ValueError",
                                        at |-> "group_cols"]
          ELSE /\ Passed("group_cols")
               /\ loc.group_cols_by =
                      Masked(args.group_cols_by.items, loc.col_filter)
               /\ Len(loc.group_cols_by) = NumCols(loc.data)

\* the filter dropped a row, and a sequence of the original length was
\* accepted and cut down to the rows left
C10_Witness ==
    /\ Passed("group_rows")
    /\ args.group_rows_by.kind # "None"
    /\ Len(args.group_rows_by.items) = NumRows(Orig)
    /\ NumRows(loc.data) >= 1
    /\ NumRows(loc.data) < NumRows(Orig)
    /\ Len(loc.group_rows_by) = NumRows(loc.data)

\* the share of all missing cells that lies in row i / column j of the
\* (reordered) mask, as two integers: a count and the total
CountInRow(flag, i) == Cardinality({j \in 1..Len(flag[i]) : flag[i][j]})
CountInCol(flag, j) == Cardinality({i \in 1..Len(flag) : flag[i][j]})
CountAll(flag) ==
    Cardinality({c \in (1..Len(flag)) \X (1..loc.num_cols) :
                    flag[c[1]][c[2]]})

\* count / total > thresh, as a comparison of integers; with no missing
\* cell at all there is no share and nothing exceeds the threshold
Exceeds(count, total, thresh) ==
    total > 0 /\ count * thresh.d > thresh.n * total

\* the ticks and labels at the positions of keep, in order
ShownAt(labels, keep) ==
    LET pos == SelectSeq([i \in 1..Len(labels) |-> i], LAMBDA i : i \in keep)
    IN [ticks |-> [k \in 1..Len(pos) |-> pos[k] - 1],
        labels |-> [k \in 1..Len(pos) |-> labels[pos[k]]]]

\* the positions whose ticks the policy shows on an axis of n items
PolicyKeeps(n, Count(_), max_displayable) ==
    IF RatLt(Zero, args.freq_thresh_show_labels)
    THEN {i \in 1..n : Exceeds(Count(i), CountAll(loc.cell_flag),
                               args.freq_thresh_show_labels)}
    ELSE IF args.show_all_labels \/ n <= max_displayable THEN 1..n
    ELSE {}

C12_ReturnedHandles ==
    pc = "done" =>
        /\ Len(canvas.returned) = 6
        /\ canvas.returned[1] = "fig"
        /\ canvas.returned[2] = "ext_frame"
        /\ canvas.returned[3] = "ext_FOR"
        /\ canvas.returned[4] = "ext_FOC"
        /\ canvas.returned[5] = "None" <=> args.group_rows_by.kind = "None"
        /\ canvas.returned[6] = "None" <=> args.group_cols_by.kind = "None"

\* rows grouped, columns not, no group-wise colorbar: the row-group handle
\* is the group strip, the column-group handle is None
C12_Witness ==
    /\ pc = "done"
    /\ args.group_rows_by.kind # "None"
    /\ args.group_cols_by.kind = "None"
    /\ ~args.group_wise_colorbar
    /\ canvas.returned[5] = "ext_show_row_groups"
    /\ canvas.returned[6] = "None"

\* what the caller got wrong, read off the arguments
BadThreshold ==
    ~(/\ 0 <= args.freq_thresh_show_labels.n
      /\ args.freq_thresh_show_labels.n < args.freq_thresh_show_labels.d)
BadLabels(labels, length) ==
    \/ labels.kind \in {"tuple", "list"} /\ Len(labels.items) # length
    \/ labels.kind = "name" /\ labels.name \notin 0..(NumCols(Orig) - 1)
BadFilterSpec(spec) ==
    \/ IsWindow(spec) /\ ~GoodWindow(spec)
    \/ spec.kind = "other"
    \/ spec.kind = "callable" /\ spec.fn = "not_bool"
BadGrouping(group_by, length) ==
    group_by.kind # "None" /\ Len(group_by.items) # length

InvalidInput ==
    IF Orig = Other THEN TRUE
    ELSE \/ BadThreshold
         \/ BadLabels(args.label_rows_with, NumRows(Orig))
         \/ BadLabels(args.label_cols_with, NumCols(Orig))
         \/ BadFilterSpec(args.filter_spec_samples)
         \/ BadFilterSpec(args.filter_spec_variables)
         \/ BadGrouping(args.group_rows_by, NumRows(Orig))
         \/ BadGrouping(args.group_cols_by, NumCols(Orig))

NothingDrawn ==
    /\ ~canvas.fig
    /\ canvas.axes = {}
    /\ canvas.ax_frame = "unset"
    /\ canvas.ax_freq_over_col = "unset"
    /\ canvas.ax_freq_over_row = "unset"
    /\ canvas.ax_row_groups = "unset"
    /\ canvas.ax_col_groups = "unset"
    /\ ~canvas.saved

\* C13: the validation of the inputs (2D table, freq_thresh_show_labels in
\* [0,1), label specs, filter specs, lengths of the grouping sequences) is
\* over before the figure is created: a call with an invalid input never
\* has a figure, a panel or a saved file, and it ends in an exception
\* raised by one of the blocks before the figure.
C13_ValidationBeforeFigure ==
    /\ InvalidInput => NothingDrawn /\ pc # "done"
    /\ (InvalidInput /\ pc = "error") =>
           StageNo(error.at) <= StageNo("group_cols")
    /\ (pc = "error" /\ StageNo(error.at) <= StageNo("group_cols")) =>
           NothingDrawn

\* the last validation, the length of group_cols_by, failed: no figure,
\* and the file that was asked for is not written
C13_Witness ==
    /\ pc = "error"
    /\ error = [type |-> "ValueError", at |-> "group_cols"]
    /\ BadGrouping(args.group_cols_by, NumCols(Orig))
    /\ args.out_path = Path
    /\ NothingDrawn

\* the sides of a panel
Left(e) == e[1]
Bottom(e) == e[2]
Right(e) == RatAdd(e[1], e[3])
Top(e) == RatAdd(e[2], e[4])

InUnitSquare(e) ==
    /\ RatLeq(Zero, Left(e)) /\ RatLeq(Zero, Bottom(e))
    /\ RatLeq(Right(e), One) /\ RatLeq(Top(e), One)

\* two rectangles share no area: one lies left of, or below, the other
Apart(e, f) ==
    \/ RatLeq(Right(e), Left(f)) \/ RatLeq(Right(f), Left(e))
    \/ RatLeq(Top(e), Bottom(f)) \/ RatLeq(Top(f), Bottom(e))

\* C14: whichever of row grouping, column grouping and group_wise_colorbar
\* are on, the extents of the panels added to the figure (main frame, the
\* two frequency strips, the two group strips, the right-hand and the
\* bottom group-wise colorbar) lie inside the unit square and no two of them
\* overlap.
C14_PanelsApartInUnitSquare ==
    /\ \A a \in canvas.axes : InUnitSquare(a.ext)
    /\ \A a, b \in canvas.axes : a # b => Apart(a.ext, b.ext)
    /\ \A a, b \in canvas.axes : a.panel = b.panel => a = b

\* both groupings and the group-wise colorbars: all seven panels are there
C14_Witness ==
    /\ pc = "done"
    /\ loc.show_row_groups /\ loc.show_col_groups
    /\ args.group_wise_colorbar
    /\ {a.panel : a \in canvas.axes} =
           {"ext_frame", "ext_FOC", "ext_FOR", "ext_show_row_groups",
            "ext_show_col_groups", "ext_row_groups", "ext_col_groups"}

\* a positive threshold that no item of a non-empty axis of n items exceeds
NoneExceeds(n, Count(_)) ==
    /\ RatLt(Zero, args.freq_thresh_show_labels)
    /\ n > 0
    /\ \A i \in 1..n : ~Exceeds(Count(i), CountAll(loc.cell_flag),
                                 args.freq_thresh_show_labels)

FigureAndFrameExist == canvas.fig /\ canvas.ax_frame = "ext_frame"

\* C15: with freq_thresh_show_labels > 0, when no item of a non-empty axis
\* has a frequency strictly above the threshold, set_labels raises (the
\* empty selection cannot be unpacked) and the call ends there, with the
\* figure and the main frame already created and no input invalid.
C15_EmptySelectionRaises ==
    /\ (Ran("row_axis")
          /\ NoneExceeds(loc.num_rows,
                         LAMBDA i : CountInRow(loc.cell_flag, i))) =>
           /\ pc = "error"
           /\ error = [type |-> "ValueError", at |-> "row_axis"]
           /\ FigureAndFrameExist
           /\ ~InvalidInput
    /\ (Ran("col_axis")
          /\ NoneExceeds(loc.num_cols,
                         LAMBDA j : CountInCol(loc.cell_flag, j))) =>
           /\ pc = "error"
           /\ error = [type |-> "ValueError", at |-> "col_axis"]
           /\ FigureAndFrameExist
           /\ ~InvalidInput

\* threshold 1/2 and two rows holding half of the missing cells each: the
\* call ends in set_labels, after the figure and the frame
C15_Witness ==
    /\ pc = "error"
    /\ error = [type |-> "ValueError", at |-> "row_axis"]
    /\ args.freq_thresh_show_labels = Half
    /\ loc.row_wise_freq = <<Half, Half>>
    /\ FigureAndFrameExist
    /\ ~InvalidInput

=============================================================================
